---- MODULE Spec2Model ----
(***************************************************************************)
(* Model of the wall-following controller main_controller.py.              *)
(*                                                                         *)
(* Units.  Wheel velocities are integers in tenths of SPEED_LIMIT          *)
(* (-0.5 * SPEED_LIMIT is -5).  Time is in milliseconds.  travelled is in  *)
(* units of 0.1 * SPEED_LIMIT * (STEP_DURATION / 1000), so that one        *)
(* accumulation abs(v_mean * (STEP_DURATION / 1000)) adds abs(v_mean).     *)
(* Proximity readings are integers in the sensor's native unit.            *)
(*                                                                         *)
(* The platform call robot.step is the only suspension point; every call   *)
(* of it is one action of the model.  It returns -1 once the simulation is *)
(* over and keeps returning -1 afterwards.                                 *)
(***************************************************************************)
EXTENDS Integers, Sequences, FiniteSets, TLC

\* ---- program constants ----
STEP_DURATION == 64
start == 0
MAX_STUCK == 50
REPORT_INTERVAL == 10000
NumLeds == 10
CollisionThreshold == 100
ObstacleThreshold == 80
SideThreshold == 60

\* ---- bounds of the model ----
MaxSteps == 9
StuckHorizon == 57
StuckMaxCrashes == 1
StuckMaxTravelled == 5
ReportHorizon == 170

VARIABLES
    pc,               \* position of the control thread
    prox,             \* sensor values as refreshed by the latest robot.step
    motor_left,       \* commanded velocity of the left wheel
    motor_right,      \* commanded velocity of the right wheel
    leds,             \* value last set on each of led_devices
    ledStatus,        \* status last passed to update_leds
    travelled,
    crashes,
    goal_done,
    stuck_loops,
    last_report_time,
    now,              \* robot.getTime()
    simOver,          \* robot.step has returned -1
    revLeft,          \* iterations left of "for _ in range(5)"
    report,           \* content of the last report produced
    writeOk,          \* whether the last report reached its file
    \* history variables (read by no action's guard)
    lastBranch,       \* branch taken by the last decision
    heldSteps,        \* robot.step calls since the last decision
    lateSteps,        \* robot.step calls made after a call returned -1
    perStep,          \* distance if accumulated once per advanced step
    turnRun,          \* run of 'turning' decisions begun at stuck_loops = 0
    pivotRun          \* run of obstacle-ahead decisions begun at stuck_loops = 0

vars == <<pc, prox, motor_left, motor_right, leds, ledStatus, travelled, crashes,
          goal_done, stuck_loops, last_report_time, now, simOver, revLeft,
          report, writeOk, lastBranch, heldSteps, lateSteps, perStep,
          turnRun, pivotRun>>

\* ---- sensors ----
FrontLevels == {ObstacleThreshold, ObstacleThreshold + 1,
                CollisionThreshold, CollisionThreshold + 1}

SideLevels == {SideThreshold - 1, SideThreshold}

Snapshot(f0, f7, s2) == (0 :> f0) @@ (7 :> f7) @@ (2 :> s2)

Snapshots == {Snapshot(f0, f7, s2) : f0 \in FrontLevels, f7 \in FrontLevels,
                                     s2 \in SideLevels}

\* one snapshot for each branch of the decision
StuckSnapshots ==
    {Snapshot(CollisionThreshold + 1, CollisionThreshold + 1, SideThreshold),
     Snapshot(ObstacleThreshold + 1, ObstacleThreshold, SideThreshold - 1),
     Snapshot(ObstacleThreshold, ObstacleThreshold, SideThreshold - 1),
     Snapshot(ObstacleThreshold, ObstacleThreshold, SideThreshold)}

NoReading == Snapshot(0, 0, 0)

\* ---- indicators ----
\* abs is left out
Abs_none(x) == x

Abs(x) == IF x < 0 THEN -x ELSE x

LedPattern(status) ==
    CASE status = "go"       -> <<1, 0, 1, 0, 1, 0, 1, 0>>
      [] status = "turning"  -> <<1, 1, 1, 1, 0, 0, 0, 0>>
      [] status = "obstacle" -> <<1, 1, 1, 1, 1, 1, 1, 1>>
      [] status = "goal"     -> <<0, 1, 0, 1, 0, 1, 0, 1>>
      [] status = "stuck"    -> <<1, 0, 0, 0, 0, 0, 0, 0>>
      [] OTHER               -> <<0, 0, 0, 0, 0, 0, 0, 0>>

\* the indicators past the pattern are switched on
UpdateLeds_tail_on(status) ==
    [i \in 1..Len(leds) |->
        IF i - 1 < Len(LedPattern(status)) THEN LedPattern(status)[i] ELSE 1]

\* update_leds: led i (0-based) is element i + 1 of the sequence
UpdateLeds(status) ==
    [i \in 1..Len(leds) |->
        IF i - 1 < Len(LedPattern(status)) THEN LedPattern(status)[i] ELSE 0]

\* ---- reports ----
NoReport == [kind |-> "none", elapsed |-> 0, travelled |-> 0, crashes |-> 0,
             goal |-> FALSE, stuck |-> FALSE]

\* the stuck label needs the counter above MAX_STUCK
ShowCurrentResults_gt(current_time, is_final, trav) ==
    [kind      |-> IF is_final THEN "final" ELSE "periodic",
     elapsed   |-> current_time - start,
     travelled |-> trav,
     crashes   |-> crashes,
     goal      |-> goal_done,
     stuck     |-> stuck_loops > MAX_STUCK]

\* show_current_results: the content printed and written; travelled is read
\* after the caller's accumulation, so the caller passes its new value
ShowCurrentResults(current_time, is_final, trav) ==
    [kind      |-> IF is_final THEN "final" ELSE "periodic",
     elapsed   |-> current_time - start,
     travelled |-> trav,
     crashes   |-> crashes,
     goal      |-> goal_done,
     stuck     |-> stuck_loops >= MAX_STUCK]

\* ---- initial state: lines 27-28 and 129-134 ----
\* n is the number of indicators lines 31-36 could acquire
InitDevices(n) ==
    /\ pc = "loop"
    /\ prox = NoReading
    /\ motor_left = 0
    /\ motor_right = 0
    /\ leds = [i \in 1..n |-> 0]
    /\ ledStatus = "none"
    /\ travelled = 0
    /\ crashes = 0
    /\ goal_done = FALSE
    /\ stuck_loops = 0
    /\ last_report_time = start
    /\ now = start
    /\ simOver = FALSE
    /\ revLeft = 0
    /\ report = NoReport
    /\ writeOk = TRUE
    /\ lastBranch = "none"
    /\ heldSteps = 0
    /\ lateSteps = 0
    /\ perStep = 0
    /\ turnRun = 0
    /\ pivotRun = 0

\* the ten indicators led0 .. led9 of the robot are all there
Init == InitDevices(NumLeds)

\* ---- the platform call robot.step(STEP_DURATION) ----
v_mean == (motor_left + motor_right) \div 2

\* the call advances the simulation by one step and refreshes the sensors
StepAdvance(S, horizon) ==
    /\ ~simOver
    /\ now < start + horizon * STEP_DURATION
    /\ now' = now + STEP_DURATION
    /\ prox' \in S
    /\ perStep' = perStep + Abs(v_mean)
    /\ UNCHANGED <<simOver, lateSteps>>

\* the call returns -1: the simulation is over, and stays over
StepSentinel ==
    /\ simOver' = TRUE
    /\ lateSteps' = IF simOver THEN lateSteps + 1 ELSE lateSteps
    /\ UNCHANGED <<now, prox, perStep>>

\* ---- main_navigation ----
\* the collision test takes the ties
IsCollision_ge(p) == p[0] >= CollisionThreshold /\ p[7] >= CollisionThreshold

IsCollision(p) == p[0] > CollisionThreshold /\ p[7] > CollisionThreshold

\* only the left front sensor is looked at
obstacle_front_left(p) == p[0] > ObstacleThreshold

obstacle_front(p) == p[0] > ObstacleThreshold \/ p[7] > ObstacleThreshold

\* the tie counts as clear
right_is_clear_le(p) == p[2] <= SideThreshold

right_is_clear(p) == p[2] < SideThreshold

Branch(p) ==
    IF IsCollision(p) THEN "collision"
    ELSE IF obstacle_front(p) THEN "pivot"
    ELSE IF right_is_clear(p) THEN "arc"
    ELSE "cruise"

Status(b) ==
    CASE b = "collision" -> "obstacle"
      [] b = "pivot"     -> "turning"
      [] b = "arc"       -> "turning"
      [] b = "cruise"    -> "go"

CommandLeft(b) ==
    CASE b = "collision" -> -5
      [] b = "pivot"     -> 4
      [] b = "arc"       -> 6
      [] b = "cruise"    -> 5

CommandRight(b) ==
    CASE b = "collision" -> -5
      [] b = "pivot"     -> -4
      [] b = "arc"       -> 2
      [] b = "cruise"    -> 5

\* the pivot counts twice
StuckAfter_pivot_twice(b) ==
    CASE b = "collision" -> stuck_loops + 1
      [] b = "pivot"     -> stuck_loops + 2
      [] b = "arc"       -> 0
      [] b = "cruise"    -> 0

\* the arc forgets to reset the counter
StuckAfter_arc_keeps(b) ==
    CASE b = "collision" -> stuck_loops + 1
      [] b = "pivot"     -> stuck_loops + 1
      [] b = "arc"       -> stuck_loops
      [] b = "cruise"    -> 0

StuckAfter(b) ==
    CASE b = "collision" -> stuck_loops + 1
      [] b = "pivot"     -> stuck_loops + 1
      [] b = "arc"       -> 0
      [] b = "cruise"    -> 0

\* the collision is not counted
CrashesAfter_nocount(b) == crashes

CrashesAfter(b) == IF b = "collision" THEN crashes + 1 ELSE crashes

RunAfter(run, counted) ==
    IF ~counted THEN 0
    ELSE IF run > 0 THEN run + 1
    ELSE IF stuck_loops = 0 THEN 1 ELSE 0

\* range(4)
ReverseSteps_short == 5 - 1

\* the count of "for _ in range(5)"
ReverseSteps == 5

\* the cruise is taken for the goal
MainNavigation_sets_goal ==
    /\ pc = "nav"
    /\ crashes' = CrashesAfter(Branch(prox))
    /\ leds' = UpdateLeds(IF Branch(prox) = "cruise" THEN "goal"
                          ELSE Status(Branch(prox)))
    /\ ledStatus' = IF Branch(prox) = "cruise" THEN "goal"
                    ELSE Status(Branch(prox))
    /\ motor_left' = CommandLeft(Branch(prox))
    /\ motor_right' = CommandRight(Branch(prox))
    /\ stuck_loops' = StuckAfter(Branch(prox))
    /\ goal_done' = (Branch(prox) = "cruise")
    /\ revLeft' = IF Branch(prox) = "collision" THEN ReverseSteps ELSE 0
    /\ pc' = IF Branch(prox) = "collision" THEN "reverse" ELSE "tail"
    /\ lastBranch' = Branch(prox)
    /\ heldSteps' = 0
    /\ turnRun' = RunAfter(turnRun, Status(Branch(prox)) = "turning")
    /\ pivotRun' = RunAfter(pivotRun, Branch(prox) = "pivot")
    /\ UNCHANGED <<prox, travelled, last_report_time, now, simOver,
                   report, writeOk, lateSteps, perStep>>

MainNavigation ==
    /\ pc = "nav"
    /\ crashes' = CrashesAfter(Branch(prox))
    /\ leds' = UpdateLeds(Status(Branch(prox)))
    /\ ledStatus' = Status(Branch(prox))
    /\ motor_left' = CommandLeft(Branch(prox))
    /\ motor_right' = CommandRight(Branch(prox))
    /\ stuck_loops' = StuckAfter(Branch(prox))
    /\ revLeft' = IF Branch(prox) = "collision" THEN ReverseSteps ELSE 0
    /\ pc' = IF Branch(prox) = "collision" THEN "reverse" ELSE "tail"
    /\ lastBranch' = Branch(prox)
    /\ heldSteps' = 0
    /\ turnRun' = RunAfter(turnRun, Status(Branch(prox)) = "turning")
    /\ pivotRun' = RunAfter(pivotRun, Branch(prox) = "pivot")
    /\ UNCHANGED <<prox, travelled, goal_done, last_report_time, now, simOver,
                   report, writeOk, lateSteps, perStep>>

\* one pass of "for _ in range(5): robot.step(STEP_DURATION)"; the value the
\* call returns is not looked at
ReverseStep(S, horizon) ==
    /\ pc = "reverse"
    /\ revLeft > 0
    /\ StepAdvance(S, horizon) \/ StepSentinel
    /\ revLeft' = revLeft - 1
    /\ pc' = IF revLeft - 1 = 0 THEN "tail" ELSE "reverse"
    /\ heldSteps' = heldSteps + 1
    /\ UNCHANGED <<motor_left, motor_right, leds, ledStatus, travelled, crashes, goal_done,
                   stuck_loops, last_report_time, report, writeOk, lastBranch,
                   turnRun, pivotRun>>

\* ---- main loop ----
\* "not goal_done and stuck_loops < MAX_STUCK", evaluated after robot.step
\* the counter is compared with <=
LoopGuard_le == ~goal_done /\ stuck_loops <= MAX_STUCK

LoopGuard == ~goal_done /\ stuck_loops < MAX_STUCK

\* the loop condition: robot.step is called first, then the flags are tested
LoopHead(S, horizon) ==
    /\ pc = "loop"
    /\ \/ /\ StepAdvance(S, horizon)
          /\ pc' = IF LoopGuard THEN "nav" ELSE "exit"
       \/ /\ StepSentinel
          /\ pc' = "exit"
    /\ heldSteps' = heldSteps + 1
    /\ UNCHANGED <<motor_left, motor_right, leds, ledStatus, travelled, crashes, goal_done,
                   stuck_loops, last_report_time, revLeft, report, writeOk,
                   lastBranch, turnRun, pivotRun>>

ReportDue == now - last_report_time >= REPORT_INTERVAL

\* a failed write is not caught: the controller dies in show_current_results
LoopTail_write_raises ==
    /\ pc = "tail"
    /\ travelled' = travelled + Abs(v_mean)
    /\ IF ReportDue
       THEN /\ report' = ShowCurrentResults(now, FALSE, travelled')
            /\ writeOk' \in BOOLEAN
            /\ last_report_time' = IF writeOk' THEN now ELSE last_report_time
            /\ pc' = IF writeOk' THEN "loop" ELSE "crashed"
       ELSE /\ UNCHANGED <<report, writeOk, last_report_time>>
            /\ pc' = "loop"
    /\ UNCHANGED <<prox, motor_left, motor_right, leds, ledStatus, crashes,
                   goal_done, stuck_loops, now, simOver, revLeft, lastBranch,
                   heldSteps, lateSteps, perStep, turnRun, pivotRun>>

\* the rest of the loop body after main_navigation returns (lines 190-200)
LoopTail ==
    /\ pc = "tail"
    /\ travelled' = travelled + Abs(v_mean)
    /\ IF ReportDue
       THEN /\ report' = ShowCurrentResults(now, FALSE, travelled')
            /\ writeOk' \in BOOLEAN
            /\ last_report_time' = now
       ELSE UNCHANGED <<report, writeOk, last_report_time>>
    /\ pc' = "loop"
    /\ UNCHANGED <<prox, motor_left, motor_right, leds, ledStatus, crashes, goal_done,
                   stuck_loops, now, simOver, revLeft, lastBranch, heldSteps,
                   lateSteps, perStep, turnRun, pivotRun>>

\* the right motor is left as it was
StopMotors_left_only ==
    /\ pc = "exit"
    /\ motor_left' = 0
    /\ pc' = "final"
    /\ UNCHANGED <<prox, leds, ledStatus, travelled, crashes, goal_done, stuck_loops,
                   last_report_time, now, simOver, revLeft, report, writeOk,
                   lastBranch, heldSteps, lateSteps, perStep, turnRun, pivotRun,
                   motor_right>>

\* lines 203-204
StopMotors ==
    /\ pc = "exit"
    /\ motor_left' = 0
    /\ motor_right' = 0
    /\ pc' = "final"
    /\ UNCHANGED <<prox, leds, ledStatus, travelled, crashes, goal_done, stuck_loops,
                   last_report_time, now, simOver, revLeft, report, writeOk,
                   lastBranch, heldSteps, lateSteps, perStep, turnRun, pivotRun>>

\* the stuck pattern is shown at every end of run
FinalReport_always_stuck ==
    /\ pc = "final"
    /\ leds' = UpdateLeds("stuck")
    /\ ledStatus' = "stuck"
    /\ report' = ShowCurrentResults(now, TRUE, travelled)
    /\ writeOk' \in BOOLEAN
    /\ pc' = "done"
    /\ UNCHANGED <<prox, motor_left, motor_right, travelled, crashes, goal_done,
                   stuck_loops, last_report_time, now, simOver, revLeft,
                   lastBranch, heldSteps, lateSteps, perStep, turnRun, pivotRun>>

\* lines 207-213
FinalReport ==
    /\ pc = "final"
    /\ leds' = IF stuck_loops >= MAX_STUCK /\ ~goal_done
               THEN UpdateLeds("stuck") ELSE leds
    /\ ledStatus' = IF stuck_loops >= MAX_STUCK /\ ~goal_done
                    THEN "stuck" ELSE ledStatus
    /\ report' = ShowCurrentResults(now, TRUE, travelled)
    /\ writeOk' \in BOOLEAN
    /\ pc' = "done"
    /\ UNCHANGED <<prox, motor_left, motor_right, travelled, crashes, goal_done,
                   stuck_loops, last_report_time, now, simOver, revLeft,
                   lastBranch, heldSteps, lateSteps, perStep, turnRun, pivotRun>>

\* ---- specifications ----
\* every snapshot around the thresholds, a short run
Next ==
    \/ LoopHead(Snapshots, MaxSteps)
    \/ MainNavigation
    \/ ReverseStep(Snapshots, MaxSteps)
    \/ LoopTail
    \/ StopMotors
    \/ FinalReport

Spec == Init /\ [][Next]_vars

\* a long run, long enough for the stuck counter to fill; the platform shows
\* a collision only while crashes is below its bound and a clear front only
\* while travelled is below its bound
StuckOffered ==
    {p \in StuckSnapshots :
        /\ IsCollision(p) => crashes < StuckMaxCrashes
        /\ ~obstacle_front(p) => travelled < StuckMaxTravelled}

NextStuck ==
    \/ LoopHead(StuckOffered, StuckHorizon)
    \/ MainNavigation
    \/ ReverseStep(StuckSnapshots, StuckHorizon)
    \/ LoopTail
    \/ StopMotors
    \/ FinalReport

SpecStuck == Init /\ [][NextStuck]_vars

\* a run long enough for a periodic report to fall due (157 steps): the
\* platform shows collisions, whose reverse takes five steps each, and
\* obstacles ahead
ReportSnapshots == {p \in StuckSnapshots : obstacle_front(p)}

NextReport ==
    \/ LoopHead(ReportSnapshots, ReportHorizon)
    \/ MainNavigation
    \/ ReverseStep(ReportSnapshots, ReportHorizon)
    \/ LoopTail
    \/ StopMotors
    \/ FinalReport

SpecReport == Init /\ [][NextReport]_vars

\* update_leds on its own: any status string, any number of indicators
StatusInputs == {"go", "turning", "obstacle", "goal", "stuck",
                 "", "GO", "reverse", "navigating", "completed"}

InitLeds == \E n \in 0..NumLeds : InitDevices(n)

UpdateLedsCall ==
    /\ \E status \in StatusInputs :
          /\ leds' = UpdateLeds(status)
          /\ ledStatus' = status
    /\ UNCHANGED <<pc, prox, motor_left, motor_right, travelled, crashes,
                   goal_done, stuck_loops, last_report_time, now, simOver,
                   revLeft, report, writeOk, lastBranch, heldSteps, lateSteps,
                   perStep, turnRun, pivotRun>>

SpecLeds == InitLeds /\ [][UpdateLedsCall]_vars

\* ---- what the claims speak of ----
\* the ten indicators as they stand after update_leds of each status
ObstacleLeds == <<1, 1, 1, 1, 1, 1, 1, 1, 0, 0>>
TurningLeds == <<1, 1, 1, 1, 0, 0, 0, 0, 0, 0>>
GoLeds == <<1, 0, 1, 0, 1, 0, 1, 0, 0, 0>>
StuckLeds == <<1, 0, 0, 0, 0, 0, 0, 0, 0, 0>>

Deciding == pc = "nav"
HardCollision == prox[0] > 100 /\ prox[7] > 100
FrontObstacle == prox[0] > 80 \/ prox[7] > 80

\* C1: from any snapshot with prox[0] > 100 and prox[7] > 100, and any prior
\* counters, one decision commands both motors to -0.5 * SPEED_LIMIT, shows
\* 'obstacle', and adds exactly 1 to crashes and to stuck_loops.
C1_HardCollision ==
    [][(Deciding /\ HardCollision) =>
          /\ motor_left' = -5 /\ motor_right' = -5
          /\ leds' = ObstacleLeds
          /\ crashes' = crashes + 1
          /\ stuck_loops' = stuck_loops + 1]_vars

\* a second collision has been decided, from counters that were not zero
C1_Witness ==
    /\ pc = "reverse" /\ revLeft = 5 /\ lastBranch = "collision"
    /\ prox[0] > 100 /\ prox[7] > 100
    /\ crashes = 2 /\ stuck_loops = 2

\* C2: from any snapshot that is no hard collision and has prox[0] > 80 or
\* prox[7] > 80, whatever prox[2], one decision commands the pivot (+0.4,
\* -0.4), shows 'turning', adds exactly 1 to stuck_loops and leaves crashes.
C2_ObstacleAhead ==
    [][(Deciding /\ ~HardCollision /\ FrontObstacle) =>
          /\ motor_left' = 4 /\ motor_right' = -4
          /\ leds' = TurningLeds
          /\ stuck_loops' = stuck_loops + 1
          /\ crashes' = crashes]_vars

\* a pivot decided on the right front sensor alone, the side reading being
\* under its threshold, after an earlier collision
C2_Witness ==
    /\ pc = "tail" /\ lastBranch = "pivot"
    /\ prox[0] <= 80 /\ prox[7] > 80 /\ prox[2] < 60
    /\ stuck_loops = 2 /\ crashes = 1

\* C3: from any snapshot with prox[0] <= 80, prox[7] <= 80 and prox[2] < 60,
\* one decision commands the arc (+0.6, +0.2), shows 'turning', sets
\* stuck_loops to 0 and leaves crashes.
C3_RightSideClear ==
    [][(Deciding /\ ~FrontObstacle /\ prox[2] < 60) =>
          /\ motor_left' = 6 /\ motor_right' = 2
          /\ leds' = TurningLeds
          /\ stuck_loops' = 0
          /\ crashes' = crashes]_vars

\* the arc has been decided right after three pivots, the counter is back to 0
C3_Witness ==
    /\ pc = "tail" /\ lastBranch = "arc" /\ turnRun = 4
    /\ prox[0] <= 80 /\ prox[7] <= 80 /\ prox[2] < 60
    /\ stuck_loops = 0 /\ motor_left = 6 /\ motor_right = 2

\* C4: from any snapshot with prox[0] <= 80, prox[7] <= 80 and prox[2] >= 60,
\* one decision commands both motors to +0.5 * SPEED_LIMIT, shows 'go', sets
\* stuck_loops to 0 and leaves crashes.
C4_Cruise ==
    [][(Deciding /\ ~FrontObstacle /\ prox[2] >= 60) =>
          /\ motor_left' = 5 /\ motor_right' = 5
          /\ leds' = GoLeds
          /\ stuck_loops' = 0
          /\ crashes' = crashes]_vars

\* the cruise has been decided at the tie prox[2] = 60 after a collision, so
\* the counter fell from a value above 0
C4_Witness ==
    /\ pc = "tail" /\ lastBranch = "cruise"
    /\ prox[0] <= 80 /\ prox[7] <= 80 /\ prox[2] = 60
    /\ crashes = 1 /\ stuck_loops = 0 /\ heldSteps = 0 /\ now = 7 * 64
    /\ motor_left = 5 /\ motor_right = 5

Halted == pc \in {"exit", "final", "done"}

\* the halted state the stuck stop is to end in
StuckStop ==
    /\ pc \in {"final", "done"} => motor_left = 0 /\ motor_right = 0
    /\ pc = "done" => /\ report.kind = "final" /\ report.stuck
                      /\ leds = StuckLeds

\* C5 as stated: once 50 consecutive decisions of status 'turning' have been
\* made from stuck_loops = 0, no further decision is made, and the run ends
\* with final status 'stuck', both motors at 0 and the stuck pattern shown.
C5_AnyTurning ==
    turnRun >= 50 => /\ turnRun = 50
                     /\ pc \notin {"nav", "reverse"}
                     /\ StuckStop

\* C5 as amended: the same of 50 consecutive obstacle-ahead (pivot)
\* decisions; the arc toward the wall also shows 'turning' but resets the
\* counter.
C5_PivotsOnly ==
    pivotRun >= 50 => /\ pivotRun = 50
                      /\ pc \notin {"nav", "reverse"}
                      /\ StuckStop

\* the run of 50 pivots has ended in the stuck stop
C5_Witness ==
    /\ pc = "done" /\ pivotRun = 50 /\ stuck_loops = 50
    /\ leds = StuckLeds /\ report.stuck
    /\ motor_left = 0 /\ motor_right = 0

\* C6: once a robot.step call has returned the sentinel, the loop has halted
\* and no further robot.step call is made, the five calls of the committed
\* reverse included.
C6_SentinelHaltsAtOnce ==
    /\ simOver => Halted
    /\ lateSteps = 0

\* C7: once the loop has been left, for whatever reason and after whichever
\* decision, both motors are at 0 and stay there.
C7_MotorsZeroOnExit ==
    pc \in {"final", "done"} => motor_left = 0 /\ motor_right = 0

\* the loop was left because the counter filled, the last decision being a
\* collision whose reverse command was still in force
C7_Witness ==
    /\ pc = "done" /\ lastBranch = "collision" /\ stuck_loops >= 50
    /\ ~simOver /\ motor_left = 0 /\ motor_right = 0

\* C8: after a hard-collision decision the reverse command stays in force
\* over the 5 robot.step calls of the manoeuvre: no decision is made and no
\* motor or indicator changes meanwhile, main_navigation returns after
\* exactly 5 calls, and the next decision comes after at least 5 calls.
C8_CommittedReverse ==
    /\ pc = "reverse" =>
          /\ lastBranch = "collision"
          /\ revLeft >= 1 /\ heldSteps + revLeft = 5
          /\ motor_left = -5 /\ motor_right = -5 /\ leds = ObstacleLeds
    /\ (lastBranch = "collision" /\ pc = "tail") =>
          /\ heldSteps = 5
          /\ motor_left = -5 /\ motor_right = -5 /\ leds = ObstacleLeds
    /\ (lastBranch = "collision" /\ pc = "nav") =>
          /\ heldSteps >= 5
          /\ motor_left = -5 /\ motor_right = -5 /\ leds = ObstacleLeds

\* the manoeuvre has run its 5 steps, all of them advanced, and the sensors
\* are about to be read again
C8_Witness ==
    /\ pc = "nav" /\ lastBranch = "collision" /\ crashes = 1
    /\ heldSteps = 6 /\ now = 7 * 64 /\ ~simOver
    /\ motor_left = -5 /\ motor_right = -5

NonProductive(b) == b \in {"collision", "pivot"}

\* what C9 says of the resets and of the increases
C9_ResetAndIncrease ==
    /\ (Deciding /\ lastBranch' \in {"arc", "cruise"}) => stuck_loops' = 0
    /\ stuck_loops' > stuck_loops =>
          /\ Deciding /\ NonProductive(lastBranch')
          /\ stuck_loops' = stuck_loops + 1

\* C9 as stated: over two consecutive decisions whose status is 'turning' or
\* 'obstacle' stuck_loops does not decrease; it is reset to 0 by a 'go' or
\* wall-arc decision; it increases only on a collision or obstacle-ahead
\* decision, and then by exactly 1.
C9_ByStatus ==
    [][/\ (/\ Deciding
           /\ leds \in {TurningLeds, ObstacleLeds}
           /\ leds' \in {TurningLeds, ObstacleLeds}) =>
              stuck_loops' >= stuck_loops
       /\ C9_ResetAndIncrease]_vars

\* C9 as amended: the decisions across which stuck_loops does not decrease
\* are the collision and obstacle-ahead ones (the wall-arc decision has
\* status 'turning' too, and resets); the rest as stated.
C9_ByBranch ==
    [][/\ (Deciding /\ NonProductive(lastBranch')) =>
              stuck_loops' >= stuck_loops
       /\ C9_ResetAndIncrease]_vars

\* an arc has reset a counter that a collision and a pivot had raised
C9_Witness ==
    /\ pc = "tail" /\ lastBranch = "arc" /\ leds = TurningLeds
    /\ crashes = 1 /\ stuck_loops = 0 /\ now = 8 * 64

\* C10: travelled has received |(left + right) / 2| * dt once for every
\* simulation step advanced under a command, so that whenever the sensors
\* are about to be read travelled is the sum of that over the steps so far.
C10_OncePerStep ==
    pc = "nav" => travelled = perStep

\* the same with no collision so far (holds: shows what the collision breaks)
C10_WithoutCollision ==
    (pc = "nav" /\ crashes = 0) => travelled = perStep

\* the table of the statuses, as the claims give it
PatternTable(status) ==
    CASE status = "go"       -> <<1, 0, 1, 0, 1, 0, 1, 0>>
      [] status = "turning"  -> <<1, 1, 1, 1, 0, 0, 0, 0>>
      [] status = "obstacle" -> <<1, 1, 1, 1, 1, 1, 1, 1>>
      [] status = "goal"     -> <<0, 1, 0, 1, 0, 1, 0, 1>>
      [] status = "stuck"    -> <<1, 0, 0, 0, 0, 0, 0, 0>>

InTable(status) == status \in {"go", "turning", "obstacle", "goal", "stuck"}

\* C14: after update_leds(status) every available indicator i in 0..7 holds
\* entry i of the row of status, or 0 when status is not in the table, and
\* every available indicator of index 8 or more holds 0; the number of
\* indicators is unchanged.
C14_IndicatorPattern ==
    ledStatus # "none" =>
        \A i \in 1..Len(leds) :
            leds[i] = IF i <= 8 /\ InTable(ledStatus)
                      THEN PatternTable(ledStatus)[i] ELSE 0

\* the ten indicators after a status of the table whose row ends in 1: the
\* two indicators past the row are off
C14_Witness ==
    /\ ledStatus = "goal" /\ Len(leds) = 10
    /\ leds[8] = 1 /\ leds[9] = 0 /\ leds[10] = 0

\* a periodic report is produced only when one is due, and last_report_time
\* moves only with a periodic report, to the time of that report
ReportOnlyWhenDue ==
    /\ (report' # report /\ report'.kind = "periodic") =>
          /\ now - last_report_time >= 10000
          /\ report'.elapsed = now - start
    /\ last_report_time' # last_report_time =>
          /\ report'.kind = "periodic"
          /\ last_report_time' = now
          /\ now - last_report_time >= 10000

\* C11: the periodic report is produced on the first simulation step at
\* which now - last_report_time >= REPORT_INTERVAL, so no further step is
\* asked of the platform while a report is due; last_report_time is then
\* that now; no periodic report is produced before one is due.
C11_ReportOnFirstDueStep ==
    [][/\ pc' \in {"loop", "reverse"} => now' - last_report_time' < 10000
       /\ ReportOnlyWhenDue]_vars

\* the same of the loop iterations instead of the simulation steps (holds:
\* the steps of the reverse manoeuvre are the ones that pass unreported)
C11_PerIteration ==
    [][/\ pc' = "loop" => now' - last_report_time' < 10000
       /\ ReportOnlyWhenDue]_vars

\* a periodic report has been produced, later than the first due step
C11_LateReport ==
    /\ report.kind = "periodic" /\ pc = "loop"
    /\ report.elapsed > 157 * 64 /\ last_report_time = report.elapsed

\* C12: a final report is produced exactly when the run ends, once, after
\* the loop was left and the motors zeroed; it is labelled stuck exactly when
\* stuck_loops >= MAX_STUCK then, and carries crashes and travelled as they
\* stood when the loop was left.
C12_FinalReport ==
    [][/\ (report'.kind = "final") = (pc' = "done")
       /\ pc' = "done" =>
             /\ pc = "final" /\ report.kind # "final"
             /\ motor_left = 0 /\ motor_right = 0
             /\ report'.stuck = (stuck_loops >= 50)
             /\ report'.crashes = crashes
             /\ report'.travelled = travelled
             /\ UNCHANGED <<stuck_loops, crashes, travelled, motor_left,
                            motor_right>>]_vars

\* the final report of a run stopped by the stuck counter, after a collision
\* and some distance
C12_Witness ==
    /\ pc = "done" /\ report.kind = "final" /\ report.stuck
    /\ stuck_loops = 50 /\ report.crashes = 1 /\ report.travelled = 9

\* C13: whether or not the file of a report can be written, a due periodic
\* report sets last_report_time to now and the loop goes on to its next
\* step, a final report ends the run, and neither touches crashes,
\* stuck_loops, the goal flag or the motor commands; travelled gets its one
\* accumulation of the iteration and nothing else.
C13_WriteFailureHarmless ==
    [][/\ (pc = "tail" /\ now - last_report_time >= 10000) =>
             /\ pc' = "loop"
             /\ report'.kind = "periodic"
             /\ last_report_time' = now
             /\ travelled' = travelled + Abs((motor_left + motor_right) \div 2)
             /\ UNCHANGED <<crashes, stuck_loops, goal_done, motor_left,
                            motor_right, simOver>>
       /\ pc = "final" =>
             /\ pc' = "done"
             /\ report'.kind = "final"
             /\ UNCHANGED <<crashes, stuck_loops, goal_done, motor_left,
                            motor_right, travelled, last_report_time>>]_vars

\* the file of a periodic report could not be written, and the loop has gone
\* on: the next step was taken and the sensors are about to be read
C13_Witness ==
    /\ ~writeOk /\ report.kind = "periodic" /\ last_report_time = report.elapsed
    /\ pc = "nav" /\ now = last_report_time + 64

GoalLeds == <<0, 1, 0, 1, 0, 1, 0, 1, 0, 0>>

C16_TravelledMonotone ==
    [][/\ travelled >= 0 /\ travelled' >= travelled
       /\ travelled' # travelled => (pc = "tail" /\ pc' = "loop")]_vars

\* the accumulation of a reverse command has been added
C16_Witness ==
    /\ pc = "loop" /\ lastBranch = "collision"
    /\ motor_left = -5 /\ motor_right = -5 /\ travelled = 10

\* what a decision leaves: the indicators and the two motor commands
Outcome == <<leds, motor_left, motor_right>>

CollisionOutcome == <<ObstacleLeds, -5, -5>>
PivotOutcome == <<TurningLeds, 4, -4>>
ArcOutcome == <<TurningLeds, 6, 2>>
CruiseOutcome == <<GoLeds, 5, 5>>

\* C17: the comparisons are strict.  A front reading of exactly 100 makes no
\* hard collision, and makes the pivot when the other front reading is above
\* 80; front readings of at most 80 make no obstacle ahead; prox[2] = 60 with
\* no frontal obstacle makes the cruise; every decision takes exactly one of
\* the four branches.
C17_TiesFallThrough ==
    [][Deciding =>
          /\ (prox[0] = 100 \/ prox[7] = 100) =>
                (crashes' = crashes /\ Outcome' # CollisionOutcome)
          /\ ((prox[0] = 100 /\ prox[7] > 80) \/ (prox[7] = 100 /\ prox[0] > 80))
                => (Outcome' = PivotOutcome /\ stuck_loops' = stuck_loops + 1)
          /\ (prox[0] <= 80 /\ prox[7] <= 80) =>
                (Outcome' \in {ArcOutcome, CruiseOutcome} /\ stuck_loops' = 0)
          /\ (prox[0] <= 80 /\ prox[7] <= 80 /\ prox[2] = 60) =>
                Outcome' = CruiseOutcome
          /\ Outcome' \in {CollisionOutcome, PivotOutcome, ArcOutcome,
                           CruiseOutcome}
          /\ lastBranch' \in {"collision", "pivot", "arc", "cruise"}
          /\ (lastBranch' = "collision") = (Outcome' = CollisionOutcome)
          /\ (lastBranch' = "pivot") = (Outcome' = PivotOutcome)
          /\ (lastBranch' = "arc") = (Outcome' = ArcOutcome)
          /\ (lastBranch' = "cruise") = (Outcome' = CruiseOutcome)]_vars

\* the pivot has been decided on the tie prox[0] = 100 with prox[7] = 101
C17_Witness ==
    /\ pc = "tail" /\ lastBranch = "pivot" /\ crashes = 0
    /\ prox[0] = 100 /\ prox[7] = 101 /\ Outcome = PivotOutcome

\* C18: once a decision has raised stuck_loops to MAX_STUCK, robot.step is
\* not called again: the last command runs for no further simulation step
\* (the five steps of the reverse manoeuvre, which belong to a collision
\* decision, are not held against the claim).
C18_NoStepOnceStuck ==
    (stuck_loops >= 50 /\ pc # "reverse") =>
        heldSteps = IF lastBranch = "collision" THEN 5 ELSE 0

\* C19: stuck_loops stays within 0 .. MAX_STUCK, crashes is never negative
\* and never decreases, no decision is made at stuck_loops = MAX_STUCK, and
\* once at MAX_STUCK the counter stays there to the end of the run.
C19_CounterBounds ==
    [][/\ 0 <= stuck_loops /\ stuck_loops <= 50
       /\ 0 <= stuck_loops' /\ stuck_loops' <= 50
       /\ crashes >= 0 /\ crashes' >= crashes
       /\ Deciding => stuck_loops < 50
       /\ stuck_loops = 50 => stuck_loops' = 50]_vars

\* the periodic report of the very iteration that filled the counter shows
\* the stuck status, while the loop has not been left yet
C19_Witness ==
    /\ pc = "loop" /\ stuck_loops = 50
    /\ report.kind = "periodic" /\ report.stuck /\ last_report_time = now

BranchLeds(b) ==
    CASE b = "collision" -> ObstacleLeds
      [] b = "pivot"     -> TurningLeds
      [] b = "arc"       -> TurningLeds
      [] b = "cruise"    -> GoLeds
      [] OTHER           -> <<0, 0, 0, 0, 0, 0, 0, 0, 0, 0>>

\* C20: the stuck pattern is shown only with both motors at 0, the loop left
\* and stuck_loops >= MAX_STUCK; while the loop runs, indicators and motor
\* commands after a decision are one of the four pairs; and a run ended by
\* the sentinel with stuck_loops < MAX_STUCK keeps the indicators of its
\* last decision while the motors are at 0.
C20_IndicatorsAndMotors ==
    /\ leds = StuckLeds =>
          /\ motor_left = 0 /\ motor_right = 0
          /\ pc = "done" /\ stuck_loops >= 50
    /\ (pc \in {"reverse", "tail", "loop", "nav", "exit"} /\ lastBranch # "none")
          => /\ Outcome \in {CollisionOutcome, PivotOutcome, ArcOutcome,
                             CruiseOutcome}
             /\ leds = BranchLeds(lastBranch)
    /\ (pc \in {"final", "done"} /\ stuck_loops < 50) =>
          /\ simOver
          /\ leds = BranchLeds(lastBranch)
          /\ motor_left = 0 /\ motor_right = 0

\* a run ended by the sentinel during a collision reverse: the obstacle
\* pattern is still shown and the motors are at 0
C20_Witness ==
    /\ pc = "done" /\ simOver /\ stuck_loops < 50 /\ lastBranch = "collision"
    /\ leds = ObstacleLeds /\ motor_left = 0 /\ motor_right = 0

====
